---- MODULE Spec2Model ----
(***************************************************************************)
(* Model of ios/generate_swift_bindings.py: main() as a sequential state   *)
(* machine over the filesystem, the working directory, the console and the *)
(* process exit status.  The binding generator (uniffi_bindgen, cargo) and *)
(* the filesystem are the environment: their outcomes are chosen           *)
(* nondeterministically.                                                   *)
(***************************************************************************)
EXTENDS Integers, Sequences, FiniteSets, TLC

\* ---------------------------------------------------------------- bounds
\* The generator writes at most MaxFiles files in one call.
MaxFiles == 2

\* ----------------------------------------------------------- pathlib.Path
\* A Path is [abs, parts]; a location is the absolute sequence of parts.
MkPath(a, ps) == [abs |-> a, parts |-> ps]

\* Path.parent: drops the last part; '.' and '/' are their own parent.
Parent(p) ==
    IF Len(p.parts) = 0 THEN p
    ELSE MkPath(p.abs, SubSeq(p.parts, 1, Len(p.parts) - 1))

\* Path / "name"
Join(p, name) == MkPath(p.abs, Append(p.parts, name))

\* The location a path denotes for a process whose working directory is dir.
Resolve(dir, p) == IF p.abs THEN p.parts ELSE dir \o p.parts

\* The ways the script is started: __file__ and the working directory.
Launches ==
    { [file |-> MkPath(TRUE, <<"proj", "ios", "generate_swift_bindings.py">>),
       cwd  |-> <<"home">>],
      [file |-> MkPath(FALSE, <<"ios", "generate_swift_bindings.py">>),
       cwd  |-> <<"proj">>],
      [file |-> MkPath(FALSE, <<"generate_swift_bindings.py">>),
       cwd  |-> <<"proj", "ios">>] }

VARIABLES
    file,       \* __file__
    cwd0,       \* working directory at start
    cwd,        \* current working directory
    fsFiles,    \* locations at which a regular file exists
    dirs,       \* location -> [exists, files] for the candidate output dirs
    pc,         \* position in main()
    exitStatus, \* process exit status, -1 while running
    output,     \* what was printed, in order
    result,     \* subprocess.run's CompletedProcess
    hist        \* what the run did (history)

vars == <<file, cwd0, cwd, fsFiles, dirs, pc, exitStatus, output, result, hist>>

\* ------------------------------------------------------- lines 13 to 17
ProjectRootOf(f) == Parent(Parent(f))
CoreDirOf(f) == Join(ProjectRootOf(f), "core")
OutDirOf(f) == Join(Join(Parent(f), "MePassa"), "Generated")

project_root == ProjectRootOf(file)
core_dir == CoreDirOf(file)
udl_file == Join(Join(core_dir, "src"), "mepassa.udl")
lib_file == Join(Join(Join(project_root, "target"), "release"), "libmepassa_core.dylib")
out_dir == OutDirOf(file)

\* Path.exists() of a file / of a directory, relative to the current cwd.
FileExists(p) == Resolve(cwd, p) \in fsFiles
DirExists(p) == dirs[Resolve(cwd, p)].exists


\* ---------------------------------------------------------------- console
Msg(m) == [msg |-> m, text |-> "", name |-> <<>>]
MsgT(m, t) == [msg |-> m, text |-> t, name |-> <<>>]
MsgN(m, n) == [msg |-> m, text |-> "", name |-> n]

Printed(m) == \E i \in 1..Len(output) : output[i].msg = m
PrintedT(m, t) == \E i \in 1..Len(output) : output[i].msg = m /\ output[i].text = t

\* ------------------------------------------------------------ environment
\* File names: the sequences of one or two character codes out of 1 and 2.
Names == UNION { [1..n -> 1..2] : n \in 1..2 }
StaleName == <<1>>
FileSets == { F \in SUBSET Names : Cardinality(F) <= MaxFiles }
ReturnCodes == {0, 1, 101}
StderrTexts == {"error: no bin target", "error: linking failed"}
StdoutTexts == {"Compiling mepassa-core"}
ExcTexts == {"boom"}

Absent == [exists |-> FALSE, files |-> {}]
InitialDirStates ==
    {Absent, [exists |-> TRUE, files |-> {}], [exists |-> TRUE, files |-> {StaleName}]}

\* The locations an output directory path can denote during a run.
OutLocsOf(l) ==
    { Resolve(l.cwd, OutDirOf(l.file)),
      Resolve(Resolve(l.cwd, CoreDirOf(l.file)), OutDirOf(l.file)) }

NoLoc == <<>>
NoResult == [returncode |-> -1, stderr |-> "", stdout |-> ""]

InitHist ==
    [ libChecked |-> NoLoc, udlChecked |-> NoLoc, outCreated |-> NoLoc,
      libPassed |-> NoLoc, outPassed |-> NoLoc, outListed |-> NoLoc,
      importError |-> FALSE, generateCalls |-> 0, generateOutcome |-> "not_called",
      chdirCalls |-> 0, cargoRuns |-> 0, listingRan |-> FALSE,
      globInOrder |-> TRUE, raised |-> "none", excText |-> "" ]

Init ==
    \E l \in Launches :
        /\ file = l.file
        /\ cwd0 = l.cwd
        /\ cwd = l.cwd
        /\ fsFiles \in SUBSET { Resolve(l.cwd, Join(Join(CoreDirOf(l.file), "src"), "mepassa.udl")),
                                Resolve(l.cwd, Join(Join(Join(ProjectRootOf(l.file), "target"),
                                                         "release"), "libmepassa_core.dylib")) }
        /\ dirs \in [OutLocsOf(l) -> InitialDirStates]
        /\ pc = "start"
        /\ exitStatus = -1
        /\ output = <<>>
        /\ result = NoResult
        /\ hist = InitHist


\* ------------------------------------------------- exceptions and handlers
\* Exit status of the interpreter when an exception leaves main() uncaught.
UncaughtExitStatus == 1

\* Variant: the handler names the subclass only (except ModuleNotFoundError).
IsCaughtByImportHandler_subclass(exc) == exc = "ModuleNotFoundError"

\* except ImportError (line 57); ModuleNotFoundError is a subclass of it.
IsCaughtByImportHandler(exc) == exc \in {"ImportError", "ModuleNotFoundError"}

\* Variant: a bare except, which also catches SystemExit.
IsCaughtByExceptionHandler_bare(exc) == TRUE

\* except Exception (line 86): SystemExit is not an Exception.
IsCaughtByExceptionHandler(exc) ==
    exc \in {"ImportError", "ModuleNotFoundError", "Exception", "OSError"}

\* Variant: the fallback sits in a finally clause and runs after success too.
AfterInProcess_finally(exc) ==
    IF exc = "none" \/ IsCaughtByImportHandler(exc) THEN "chdir" ELSE "done"

\* Where control goes when the in-process try block (lines 40 to 55) ends
\* with exception exc ("none": it ran to its end).
AfterInProcess(exc) ==
    IF exc = "none" THEN "listing"
    ELSE IF IsCaughtByImportHandler(exc) THEN "chdir"
    ELSE "done"

\* Variant: any non-negative return code is taken for success.
ReturnCodeOk_nonneg(rc) == rc >= 0

\* if result.returncode == 0 (line 79)
ReturnCodeOk(rc) == rc = 0

\* ------------------------------------------------------------ what is printed
HeaderMessages ==
    <<Msg("generating"), Msg("udl_file"), Msg("library"), Msg("output")>>

\* Variant: the library check prints the error line only.
LibraryMissingMessages_bare == <<Msg("error_library_not_found")>>

\* lines 26 to 28
LibraryMissingMessages ==
    <<Msg("error_library_not_found"), Msg("please_build_library_first"),
      Msg("cd_core_cargo_build_release")>>

\* line 33
UdlMissingMessages == <<Msg("error_udl_not_found")>>

\* lines 58 and 59
FallbackMessages == <<Msg("module_not_found"), Msg("trying_cargo")>>

\* Variant: the captured standard output is printed instead of the error stream.
ErrorGeneratingMessages_stdout(res) ==
    <<Msg("error_generating_bindings"), MsgT("stderr", res.stdout)>>

\* lines 82 and 83
ErrorGeneratingMessages(res) ==
    <<Msg("error_generating_bindings"), MsgT("stderr", res.stderr)>>

\* lines 87 to 90
ManualMessages(text) ==
    <<MsgT("error", text), Msg("manual_generation_required"),
      Msg("manual_install_python"), Msg("manual_rust_example")>>

\* lines 99 to 102
NextStepMessages ==
    <<Msg("next_steps"), Msg("next_add_files"), Msg("next_add_library"),
      Msg("next_import")>>

\* The interpreter's report of an uncaught exception.
Traceback(text) == <<MsgT("traceback", text)>>

\* ------------------------------------------------------------ sorted()
RECURSIVE LexLess(_, _)
LexLess(a, b) ==
    IF Len(a) = 0 THEN Len(b) > 0
    ELSE IF Len(b) = 0 THEN FALSE
    ELSE IF Head(a) < Head(b) THEN TRUE
    ELSE IF Head(a) > Head(b) THEN FALSE
    ELSE LexLess(Tail(a), Tail(b))

RECURSIVE Insert(_, _)
Insert(x, s) ==
    IF Len(s) = 0 THEN <<x>>
    ELSE IF LexLess(x, Head(s)) THEN <<x>> \o s
    ELSE <<Head(s)>> \o Insert(x, Tail(s))

RECURSIVE InsertionSort(_)
InsertionSort(s) ==
    IF Len(s) = 0 THEN <<>> ELSE Insert(Head(s), InsertionSort(Tail(s)))

\* Variant: the entries are printed in the order glob yields them.
sorted_unsorted(s) == s

\* sorted(out_dir.glob("*")) (line 96)
sorted(s) == InsertionSort(s)

\* s is strictly ascending in lexicographic order.
InOrder(s) == \A i, j \in 1..Len(s) : i < j => LexLess(s[i], s[j])

\* The orders in which glob may yield the entries of a directory.
GlobOrders(S) ==
    { q \in [1..Cardinality(S) -> S] : \A i, j \in 1..Cardinality(S) : q[i] = q[j] => i = j }


\* ------------------------------------------------------------ control flow
Say(msgs) == output' = output \o msgs

\* The process ends with status code after printing msgs.
Exit(code, msgs) ==
    /\ pc' = "done"
    /\ exitStatus' = code
    /\ Say(msgs)

\* exc leaves the in-process try block (lines 40 to 55) after pre was printed.
RaiseInProcess(exc, text, pre) ==
    IF AfterInProcess(exc) = "chdir"
    THEN /\ pc' = "chdir"
         /\ Say(pre \o FallbackMessages)
         /\ UNCHANGED exitStatus
    ELSE Exit(UncaughtExitStatus, pre \o Traceback(text))

\* exc leaves the fallback try block (lines 62 to 84) after pre was printed;
\* code is the argument of SystemExit.
RaiseInFallback(exc, code, text, pre) ==
    IF IsCaughtByExceptionHandler(exc)
    THEN Exit(1, pre \o ManualMessages(text))
    ELSE IF exc = "SystemExit"
    THEN Exit(code, pre)
    ELSE Exit(UncaughtExitStatus, pre \o Traceback(text))

\* The generator writes the files F into the directory at loc, creating it.
WriteFiles(loc, F) ==
    IF F = {} THEN dirs
    ELSE [dirs EXCEPT ![loc] = [exists |-> TRUE, files |-> @.files \cup F]]

\* ------------------------------------------------------------------ main()
\* lines 13 to 22
Start ==
    /\ pc = "start"
    /\ pc' = "check_lib"
    /\ Say(HeaderMessages)
    /\ UNCHANGED <<file, cwd0, cwd, fsFiles, dirs, exitStatus, result, hist>>

\* lines 25 to 29
CheckLibrary ==
    /\ pc = "check_lib"
    /\ hist' = [hist EXCEPT !.libChecked = Resolve(cwd, lib_file)]
    /\ IF ~FileExists(lib_file)
       THEN Exit(1, LibraryMissingMessages)
       ELSE /\ pc' = "check_udl"
            /\ UNCHANGED <<exitStatus, output>>
    /\ UNCHANGED <<file, cwd0, cwd, fsFiles, dirs, result>>

\* Variant: the error is printed but sys.exit(1) is missing.
CheckUdl_noexit ==
    /\ pc = "check_udl"
    /\ hist' = [hist EXCEPT !.udlChecked = Resolve(cwd, udl_file)]
    /\ pc' = "mkdir"
    /\ IF ~FileExists(udl_file) THEN Say(UdlMissingMessages) ELSE UNCHANGED output
    /\ UNCHANGED <<file, cwd0, cwd, fsFiles, dirs, exitStatus, result>>

\* lines 32 to 34
CheckUdl ==
    /\ pc = "check_udl"
    /\ hist' = [hist EXCEPT !.udlChecked = Resolve(cwd, udl_file)]
    /\ IF ~FileExists(udl_file)
       THEN Exit(1, UdlMissingMessages)
       ELSE /\ pc' = "mkdir"
            /\ UNCHANGED <<exitStatus, output>>
    /\ UNCHANGED <<file, cwd0, cwd, fsFiles, dirs, result>>

\* line 37: out_dir.mkdir(parents=True, exist_ok=True); it may raise OSError.
CreateOutputDir ==
    /\ pc = "mkdir"
    /\ \E raises \in BOOLEAN, text \in ExcTexts :
        IF raises
        THEN /\ Exit(UncaughtExitStatus, Traceback(text))
             /\ hist' = [hist EXCEPT !.raised = "mkdir"]
             /\ UNCHANGED dirs
        ELSE /\ dirs' = [dirs EXCEPT ![Resolve(cwd, out_dir)].exists = TRUE]
             /\ hist' = [hist EXCEPT !.outCreated = Resolve(cwd, out_dir)]
             /\ pc' = "import"
             /\ UNCHANGED <<exitStatus, output>>
    /\ UNCHANGED <<file, cwd0, cwd, fsFiles, result>>

\* lines 41 to 45: the two imports; either may raise ImportError.
ImportGenerator ==
    /\ pc = "import"
    /\ \E outcome \in {"ok", "no_module", "no_name"} :
        IF outcome = "ok"
        THEN /\ pc' = "generate"
             /\ Say(<<Msg("found_module")>>)
             /\ UNCHANGED <<exitStatus, hist>>
        ELSE /\ hist' = [hist EXCEPT !.importError = TRUE]
             /\ IF outcome = "no_module"
                THEN RaiseInProcess("ModuleNotFoundError", "No module named uniffi_bindgen", <<>>)
                ELSE RaiseInProcess("ImportError", "cannot import name generate_bindings",
                                    <<Msg("found_module")>>)
    /\ UNCHANGED <<file, cwd0, cwd, fsFiles, dirs, result>>

\* lines 46 to 55: generate_bindings(...) returns or raises, having written F.
Generate ==
    /\ pc = "generate"
    /\ \E outcome \in {"none", "ImportError", "ModuleNotFoundError", "Exception"},
          F \in FileSets, text \in ExcTexts :
        /\ dirs' = WriteFiles(Resolve(cwd, out_dir), F)
        /\ hist' = [hist EXCEPT !.generateCalls = @ + 1, !.generateOutcome = IF outcome = "none" THEN "returned" ELSE outcome,
                                !.excText = text]
        /\ IF outcome = "none"
           THEN /\ pc' = AfterInProcess("none")
                /\ Say(<<Msg("success")>>)
                /\ UNCHANGED exitStatus
           ELSE RaiseInProcess(outcome, text, <<>>)
    /\ UNCHANGED <<file, cwd0, cwd, fsFiles, result>>

\* line 65: os.chdir(core_dir); it may raise OSError.
ChangeDir ==
    /\ pc = "chdir"
    /\ \E raises \in BOOLEAN, text \in ExcTexts :
        IF raises
        THEN /\ RaiseInFallback("OSError", 1, text, <<>>)
             /\ hist' = [hist EXCEPT !.chdirCalls = @ + 1, !.raised = "chdir"]
             /\ UNCHANGED cwd
        ELSE /\ cwd' = Resolve(cwd, core_dir)
             /\ hist' = [hist EXCEPT !.chdirCalls = @ + 1]
             /\ pc' = "run"
             /\ UNCHANGED <<exitStatus, output>>
    /\ UNCHANGED <<file, cwd0, fsFiles, dirs, result>>

\* lines 68 to 77: subprocess.run([...]); launching may raise OSError,
\* otherwise the child runs in the current working directory and ends.
RunCargo ==
    /\ pc = "run"
    /\ \/ \E text \in ExcTexts :
            /\ RaiseInFallback("OSError", 1, text, <<>>)
            /\ hist' = [hist EXCEPT !.raised = "run"]
            /\ UNCHANGED <<dirs, result>>
       \/ \E rc \in ReturnCodes, err \in StderrTexts, out \in StdoutTexts, F \in FileSets :
            /\ hist' = [hist EXCEPT !.cargoRuns = @ + 1,
                                    !.libPassed = Resolve(cwd, lib_file),
                                    !.outPassed = Resolve(cwd, out_dir)]
            /\ dirs' = WriteFiles(Resolve(cwd, out_dir), F)
            /\ result' = [returncode |-> rc, stderr |-> err, stdout |-> out]
            /\ pc' = "check_rc"
            /\ UNCHANGED <<exitStatus, output>>
    /\ UNCHANGED <<file, cwd0, cwd, fsFiles>>

\* lines 79 to 84
CheckReturnCode ==
    /\ pc = "check_rc"
    /\ IF ReturnCodeOk(result.returncode)
       THEN /\ pc' = "listing"
            /\ Say(<<Msg("success")>>)
            /\ UNCHANGED exitStatus
       ELSE RaiseInFallback("SystemExit", 1, "1", ErrorGeneratingMessages(result))
    /\ UNCHANGED <<file, cwd0, cwd, fsFiles, dirs, result, hist>>

\* lines 94 to 97
ListFiles ==
    /\ pc = "listing"
    /\ IF DirExists(out_dir)
       THEN \E glob \in GlobOrders(dirs[Resolve(cwd, out_dir)].files) :
               /\ Say(<<Msg("generated_files")>>
                      \o [i \in 1..Len(glob) |-> MsgN("file", sorted(glob)[i])])
               /\ hist' = [hist EXCEPT !.outListed = Resolve(cwd, out_dir),
                                       !.listingRan = TRUE, !.globInOrder = InOrder(glob)]
       ELSE /\ hist' = [hist EXCEPT !.outListed = Resolve(cwd, out_dir),
                                    !.listingRan = TRUE]
            /\ UNCHANGED output
    /\ pc' = "next_steps"
    /\ UNCHANGED <<file, cwd0, cwd, fsFiles, dirs, exitStatus, result>>

\* lines 99 to 102, then main() returns and the interpreter exits with 0.
NextSteps ==
    /\ pc = "next_steps"
    /\ Exit(0, NextStepMessages)
    /\ UNCHANGED <<file, cwd0, cwd, fsFiles, dirs, result, hist>>

Next ==
    \/ Start
    \/ CheckLibrary
    \/ CheckUdl
    \/ CreateOutputDir
    \/ ImportGenerator
    \/ Generate
    \/ ChangeDir
    \/ RunCargo
    \/ CheckReturnCode
    \/ ListFiles
    \/ NextSteps

Spec == Init /\ [][Next]_vars


\* ================================================================= claims
Done == pc = "done"
LibMissing == Resolve(cwd0, lib_file) \notin fsFiles
UdlMissing == Resolve(cwd0, udl_file) \notin fsFiles
InProcessSucceeded == hist.generateOutcome = "returned"
ExternalExited == hist.cargoRuns > 0 /\ result.returncode # -1
ExternalSucceeded == ExternalExited /\ result.returncode = 0
ExternalFailed == ExternalExited /\ result.returncode # 0
PastInputChecks ==
    pc \in {"mkdir", "import", "generate", "chdir", "run", "check_rc", "listing", "next_steps"}

\* C1: the exit status is 0 exactly when one of the two generation
\* strategies succeeded and 1 in every other terminated run (missing input,
\* failed generation, exception from mkdir, chdir or launching cargo); no
\* run ends with another status, and a running process has no status yet.
C1_ExitStatus ==
    /\ exitStatus \in {-1, 0, 1}
    /\ ~Done => exitStatus = -1
    /\ Done => /\ exitStatus \in {0, 1}
               /\ exitStatus = 0 <=> (InProcessSucceeded \/ ExternalSucceeded)

C1_Witness ==
    /\ Done
    /\ exitStatus = 1
    /\ ExternalFailed
    /\ result.returncode = 101

\* C2: with the library or the interface definition missing, main exits
\* with status 1 and never gets past the input checks: generate_bindings is
\* not called and cargo is not started, whatever the other input is.
C2_MissingInputNeverGenerates ==
    (LibMissing \/ UdlMissing) =>
        /\ ~PastInputChecks
        /\ hist.generateCalls = 0
        /\ hist.cargoRuns = 0
        /\ hist.chdirCalls = 0
        /\ hist.outCreated = NoLoc
        /\ Done => exitStatus = 1

C2_Witness == Done /\ UdlMissing /\ ~LibMissing /\ exitStatus = 1

\* C3: when an import of the in-process generator raises ImportError, main
\* does not stop there: it goes on to chdir and cargo without calling
\* generate_bindings, and the exit status is 0 exactly when cargo returned 0.
C3_ImportErrorFallsBack ==
    hist.importError =>
        /\ pc \in {"chdir", "run", "check_rc", "listing", "next_steps", "done"}
        /\ hist.generateCalls = 0
        /\ Done => /\ hist.chdirCalls = 1
                   /\ hist.raised = "none" => hist.cargoRuns = 1
                   /\ exitStatus = 0 <=> ExternalSucceeded
                   /\ exitStatus = 1 <=> ~ExternalSucceeded

C3_Witness ==
    /\ Done
    /\ hist.importError
    /\ Printed("found_module")
    /\ hist.cargoRuns = 1
    /\ exitStatus = 0

\* C4: when the cargo subprocess exits non-zero, main exits with status 1,
\* the captured standard error is printed, and neither the success message
\* nor the file listing nor the next steps are printed.
C4_NonZeroReturnCode ==
    (ExternalFailed /\ Done) =>
        /\ exitStatus = 1
        /\ PrintedT("stderr", result.stderr)
        /\ ~Printed("success")
        /\ ~Printed("generated_files")
        /\ ~Printed("file")
        /\ ~Printed("next_steps")
        /\ ~hist.listingRan

C4_Witness ==
    /\ Done
    /\ ExternalFailed
    /\ PrintedT("stderr", "error: linking failed")


GenerationFailed == hist.generateOutcome = "Exception" \/ ExternalFailed
DiagnosticShown ==
    /\ hist.generateOutcome = "Exception" => PrintedT("traceback", hist.excText)
    /\ ExternalFailed => PrintedT("stderr", result.stderr)

\* C5 as stated: every failed generation (generate_bindings raising an
\* unexpected exception, or cargo exiting non-zero) ends with status 1 and
\* shows both the diagnostic and the manual-recovery instructions.
C5_Original ==
    (GenerationFailed /\ Done) =>
        /\ exitStatus = 1
        /\ DiagnosticShown
        /\ Printed("manual_generation_required")

\* C5 (amended): every failed generation ends with status 1 and shows the
\* diagnostic (the exception's message or the captured error stream), but
\* not the manual-recovery instructions, which are printed only when chdir
\* or the launch of cargo raises.
C5_FailedGenerationDiagnostic ==
    /\ (GenerationFailed /\ Done) =>
          /\ exitStatus = 1
          /\ DiagnosticShown
          /\ ~Printed("manual_generation_required")
    /\ Printed("manual_generation_required") =>
          /\ hist.raised \in {"chdir", "run"}
          /\ exitStatus = 1

C5_Witness ==
    /\ Done
    /\ hist.generateOutcome = "Exception"
    /\ PrintedT("traceback", "boom")
    /\ exitStatus = 1

OutLoc0 == Resolve(cwd0, out_dir)

\* C6 as stated: when the imports succeed and generate_bindings returns,
\* main exits 0 without starting cargo or changing the working directory,
\* and the output directory holds at least one file at exit.
C6_Original ==
    (InProcessSucceeded /\ Done) =>
        /\ exitStatus = 0
        /\ hist.cargoRuns = 0
        /\ hist.chdirCalls = 0
        /\ cwd = cwd0
        /\ dirs[OutLoc0].files # {}

\* C6 (amended): when the imports succeed and generate_bindings returns,
\* main exits 0 without starting cargo or changing the working directory,
\* and the output directory exists at exit; whether it holds a file is not
\* checked: it lists what the generator and earlier runs left there.
C6_InProcessSuccess ==
    InProcessSucceeded =>
        /\ pc \in {"listing", "next_steps", "done"}
        /\ hist.cargoRuns = 0
        /\ hist.chdirCalls = 0
        /\ cwd = cwd0
        /\ hist.outCreated = OutLoc0
        /\ dirs[OutLoc0].exists
        /\ Done => /\ exitStatus = 0
                   /\ hist.outListed = OutLoc0
                   /\ Printed("generated_files")

C6_Witness ==
    /\ Done
    /\ InProcessSucceeded
    /\ exitStatus = 0
    /\ dirs[OutLoc0].files = {}

\* C7 as stated: whichever input is missing, the failure is reported with
\* guidance on how to produce the artifact, and the exit status is non-zero.
C7_Original ==
    ((LibMissing \/ UdlMissing) /\ Done) =>
        /\ exitStatus > 0
        /\ Printed("error_library_not_found") \/ Printed("error_udl_not_found")
        /\ Printed("please_build_library_first")

\* C7 (amended): a missing input is reported and ends the run with status
\* 1; the guidance to build the core is printed when the library is missing
\* (also when both are missing), and a missing interface definition alone
\* is reported without guidance.
C7_MissingInputReport ==
    /\ (LibMissing /\ Done) =>
          /\ exitStatus = 1
          /\ Printed("error_library_not_found")
          /\ Printed("please_build_library_first")
          /\ Printed("cd_core_cargo_build_release")
          /\ ~Printed("error_udl_not_found")
    /\ (~LibMissing /\ UdlMissing /\ Done) =>
          /\ exitStatus = 1
          /\ Printed("error_udl_not_found")
          /\ ~Printed("please_build_library_first")
          /\ ~Printed("cd_core_cargo_build_release")

C7_Witness == Done /\ LibMissing /\ UdlMissing /\ Printed("please_build_library_first")

FileLines == SelectSeq(output, LAMBDA m : m.msg = "file")
ListedLoc == Resolve(cwd, out_dir)

\* C8: after a successful generation the listing never raises and never
\* changes the exit status: an absent directory is skipped, an empty one
\* gets the heading and no file line, otherwise every file is printed once
\* in lexicographic order; the next steps follow and the run exits 0.
C8_Listing ==
    (InProcessSucceeded \/ ExternalSucceeded) =>
        /\ ~Printed("traceback")
        /\ pc \in {"check_rc", "listing", "next_steps", "done"}
        /\ Done =>
            /\ exitStatus = 0
            /\ hist.listingRan
            /\ output[Len(output) - 3].msg = "next_steps"
            /\ IF ~dirs[ListedLoc].exists
               THEN ~Printed("generated_files") /\ FileLines = <<>>
               ELSE /\ Printed("generated_files")
                    /\ Len(FileLines) = Cardinality(dirs[ListedLoc].files)
                    /\ { FileLines[i].name : i \in 1..Len(FileLines) } = dirs[ListedLoc].files
                    /\ InOrder([i \in 1..Len(FileLines) |-> FileLines[i].name])

C8_Witness ==
    /\ Done
    /\ ExternalSucceeded
    /\ Len(FileLines) >= 2
    /\ ~hist.globInOrder

C8_WitnessAbsent == Done /\ ExternalSucceeded /\ ~dirs[ListedLoc].exists
C8_WitnessEmpty == Done /\ InProcessSucceeded /\ dirs[ListedLoc].exists /\ FileLines = <<>>

\* C9: the strategies run in order, each at most once, and cargo is never
\* started in a run in which generate_bindings has been called.
C9_NoCargoAfterGenerate ==
    /\ hist.generateCalls <= 1
    /\ hist.cargoRuns <= 1
    /\ ~(hist.generateCalls > 0 /\ hist.cargoRuns > 0)

\* C10: the paths denote the same locations for the whole run: the library
\* handed to cargo is the one checked, and the output directory handed to
\* cargo and the one listed are the one created, also for a relative
\* __file__.
C10_SameLocations ==
    /\ hist.libPassed # NoLoc => hist.libPassed = hist.libChecked
    /\ hist.outPassed # NoLoc => hist.outPassed = hist.outCreated
    /\ hist.outListed # NoLoc => hist.outListed = hist.outCreated

====
